---- MODULE Spec2Model ----
(***************************************************************************)
(* Live analysis pipeline of the facerecog browser client.                 *)
(*                                                                         *)
(* Two components keep a camera open and run a periodic capture loop:      *)
(*   - CameraAnalysis (route /camera-analysis/:type), which captures a     *)
(*     frame every second and posts it to the backend with fetch;          *)
(*   - Camera (used by the Analysis page), which captures a frame and      *)
(*     hands it to its onCapture prop.                                     *)
(* The routes are exclusive, so at most one of the two is mounted at a     *)
(* time; the variables that both components own under the same name        *)
(* (videoRef, canvasRef, isProcessing, the interval) describe the mounted  *)
(* one.  What outlives a component - getUserMedia calls and the streams    *)
(* they produce, fetch requests in flight - is kept across unmounts.       *)
(*                                                                         *)
(* React is modelled at the granularity of a commit: a handler's state     *)
(* updates, the re-render they cause and the effects whose dependencies    *)
(* changed are one step.                                                   *)
(***************************************************************************)
EXTENDS Integers, Sequences, FiniteSets, TLC

\* ------------------------------------------------------------------ bounds
\* Number of mounts of CameraAnalysis explored.
MaxMounts == 1
\* Number of getUserMedia calls of Camera explored.
MaxAcquire == 2
\* Number of processFrame invocations that may be awaiting at once.
MaxInflight == 2
\* Native size of the camera's video frames once metadata is loaded.
VideoW == 4
VideoH == 3
\* Size of a canvas element before any script sets it.
CanvasW == 2
CanvasH == 1
\* Time up to which timed runs are followed, in ms.
MaxTime == 4000
\* Largest width and height of video and canvas given to drawDetections.
MaxDim == 4
\* Number of files a file dialog returns at most, and number of files a
\* form page holds (read or being read).
MaxFiles == 6
\* Number of requests of a form page that may await their response at once.
MaxRequests == 2

\* --------------------------------------------------------------- constants
\* setInterval(processFrame, 1000)
TickIntervalMs == 1000
\* // Limit to 5 images
MaxImages == 5

VARIABLES
    mounted,        \* which live component is mounted: "none", "CameraAnalysis", "Camera"
    gum,            \* getUserMedia calls: <<[comp, owner, state]>>; owner: the
                    \* instance that made the call is still mounted; state in
                    \* pending / live / stopped / rejected
    srcObject,      \* videoRef.current.srcObject of the mounted component: 0 (null) or index in gum
    videoWidth,     \* videoRef.current.videoWidth
    videoHeight,    \* videoRef.current.videoHeight
    canvas,         \* canvasRef.current: [width, height, boxes (face boxes are drawn)]
    isProcessing,   \* useState isProcessing of the mounted component
    interval,       \* the armed setInterval and the closure of its callback, or NoTimer
    type,           \* CameraAnalysis: route parameter :type
    requiredUsers,  \* CameraAnalysis: useState requiredUsers
    results,        \* CameraAnalysis: useState results
    inflight,       \* CameraAnalysis: processFrame invocations suspended at an await:
                    \* <<[alive, type, requiredUsers, request, pc]>>; alive: the
                    \* instance that started it is still mounted
    isActive,       \* Camera: prop isActive
    continuousProcessing, \* Camera: prop continuousProcessing
    error,          \* Camera: useState error ("" for null)
    stream,         \* Camera: the getUserMedia call whose result the current camera effect
                    \* run assigns to its `stream` variable: 0 (no call) or index in gum
    apiCalls,       \* what the last step did with a frame: drawImage, toDataURL,
                    \* fetch, onCapture; console.error when processFrame logged
                    \* a failure
    clock,          \* the wall clock of a timed run, NoClock where time is abstracted
    page,           \* the form page shown: "none", "Analysis", "FaceRegistration",
                    \* "GroupAnalysis"
    mode,           \* Analysis, GroupAnalysis: useState mode
    name,           \* Analysis, FaceRegistration: useState name
    selectedImages, \* Analysis, FaceRegistration: useState selectedImages
    maxImagesReached, \* Analysis, FaceRegistration: useState maxImagesReached
    imagePreview,   \* Analysis: useState imagePreview; GroupAnalysis: imageBase64
                    \* ("" for null)
    disk,           \* the files the user picks from, by their contents as data
                    \* URLs: the k-th file of a selection is disk[k], or the
                    \* last one if the selection is longer
    location,       \* the router's location: the segments of its pathname
    readers,        \* FileReaders whose readAsDataURL has not completed:
                    \* <<[file, sawPreview]>>
    pageError,      \* form pages: useState error ("" for null)
    pageSuccess,    \* Analysis: useState success, FaceRegistration: useState
                    \* message: "" for none, else the name the message reports
                    \* as registered
    pageResult,     \* Analysis: useState result; GroupAnalysis: useState results
    pageProcessing, \* form pages: useState isProcessing
    requests,       \* requests of the form page awaiting their response:
                    \* <<[handler, endpoint, body, name, mode]>>; name and
                    \* mode: the state the handler closed over
    detectedFaces,  \* Camera: prop detectedFaces
    rects           \* Camera: the strokeRect calls of the last drawDetections

vars == <<mounted, gum, srcObject, videoWidth, videoHeight, canvas,
          isProcessing, interval, type, requiredUsers, results, inflight,
          isActive, continuousProcessing, error, stream, apiCalls, clock,
          page, mode, name, selectedImages, maxImagesReached, imagePreview,
          disk, location, readers, pageError, pageSuccess, pageResult, pageProcessing,
          requests, detectedFaces, rects>>

cameraAnalysisVars == <<type, requiredUsers, results>>
cameraVars == <<isActive, continuousProcessing, error, stream>>

\* The state of the form pages: what handleCameraCapture writes, and the rest.
captureVars == <<imagePreview, selectedImages, pageError>>
formVars == <<page, mode, name, maxImagesReached, disk, location, readers,
              pageSuccess, pageResult, pageProcessing, requests>>

\* What the overlay effect of Camera reads and draws.
overlayVars == <<detectedFaces, rects>>

\* What the live components CameraAnalysis and Camera leave alone, but for
\* Camera's onCapture.
restVars == <<formVars, overlayVars>>

\* ------------------------------------------------------------------ values
Null == [null |-> TRUE]
NoTimer == [armed |-> FALSE]

\* Values of the :type route parameter; "other" stands for any value that
\* is none of the three cases of the switch.
Types == {"face", "group", "crowd", "other"}

\* Texts typed in the "Required Users" input, as their comma-separated fields.
InputTexts == {<<"alice", " bob">>}

\* String.prototype.trim on the fields used above.
Trim(s) ==
    CASE s = " bob" -> "bob"
      [] s = " " -> ""
      [] OTHER -> s

\* e.target.value.split(',').map(id => id.trim())
SplitTrim(fields) == [i \in 1..Len(fields) |-> Trim(fields[i])]

\* canvas.toDataURL('image/jpeg'): a canvas with a zero dimension yields the
\* string "data:,", any other canvas a JPEG data URL.
EmptyDataURL == "data:,"
JpegDataURL == "data:image/jpeg;base64,/9j/"
toDataURL(w, h) == IF w = 0 \/ h = 0 THEN EmptyDataURL ELSE JpegDataURL

\* JavaScript truthiness of a string; null is written "" where a string may
\* be null.
Truthy(v) == v # ""

\* A canvas element as created by the browser.
NewCanvas == [width |-> CanvasW, height |-> CanvasH, boxes |-> FALSE]

\* ---------------------------------------------------------------------- time
\* A timed run knows the time now (ms since the page was opened), the latency
\* of its requests, when the armed interval fires next, when the request in
\* flight settles, and when requests were started.
NoClock == [running |-> FALSE]

\* Latencies of the backend explored by timed runs, in ms.
Latencies == {500, 1500, 2500}

StartClock(l) ==
    [running |-> TRUE, now |-> 0, latency |-> l, fireAt |-> 0, settleAt |-> 0,
     started |-> {}]

\* setInterval(processFrame, 1000) is called now, or the timer fires now:
\* the next firing is one interval from now.
SetInterval(c) ==
    IF c.running THEN [c EXCEPT !.fireAt = c.now + TickIntervalMs] ELSE c

\* fetch(...) is called now.
StartFetch(c) ==
    IF c.running
    THEN [c EXCEPT !.settleAt = c.now + c.latency, !.started = @ \cup {c.now}]
    ELSE c

\* The armed timer fires, the request in flight settles, at its time.
TickDue == clock.running => clock.now = clock.fireAt
SettleDue == clock.running => clock.now = clock.settleAt

\* ------------------------------------------------------- getUserMedia calls
\* navigator.mediaDevices.getUserMedia(...): a new pending call made by the
\* mounted instance of component c, after the calls g.
GumCall(g, c) == Append(g, [comp |-> c, owner |-> TRUE, state |-> "pending"])

\* The instance that made the calls so far is unmounted.
Disown(g) == [k \in 1..Len(g) |-> [g[k] EXCEPT !.owner = FALSE]]

\* stream.getTracks().forEach(track => track.stop()) on call k's stream.
StopTracks(g, k) == [g EXCEPT ![k].state = "stopped"]

Pending(k) == k \in 1..Len(gum) /\ gum[k].state = "pending"
Live(k) == k \in 1..Len(gum) /\ gum[k].state = "live"

\* ------------------------------------------------------------ CameraAnalysis
CAMounted == mounted = "CameraAnalysis"

\* The callback handed to setInterval closes over the render's isProcessing,
\* type and requiredUsers.
CAClosure(p, t, u) ==
    [armed |-> TRUE, isProcessing |-> p, type |-> t, requiredUsers |-> u]

\* let endpoint = ''; switch (type) { ... } of processFrame.
Endpoint(t) ==
    CASE t = "face" -> "/api/identify-face"
      [] t = "group" -> "/api/group-authentication"
      [] t = "crowd" -> "/api/crowd-count"
      [] OTHER -> ""

\* default: throw new Error('Invalid analysis type')
InvalidType(t) == t \notin {"face", "group", "crowd"}

\* let payload = { image: frame }; case 'group' adds requiredUsers.
Payload(t, frame, u) ==
    IF t = "group" THEN [image |-> frame, requiredUsers |-> u]
    ELSE [image |-> frame]

\* captureFrame: resizes the canvas to the video's size (which clears it),
\* draws the video frame and returns canvas.toDataURL.
captureFrameCanvas == [width |-> videoWidth, height |-> videoHeight, boxes |-> FALSE]
captureFrame == toDataURL(videoWidth, videoHeight)

\* processFrame without its busy check.
ProcessFrameIgnoresBusy(frame, closure) == ~Truthy(frame)

\* if (!frame || isProcessing) return;
ProcessFrameReturnsEarly(frame, closure) == ~Truthy(frame) \/ closure.isProcessing

\* Bodies the backend may answer a request with.
Bodies ==
    { [success |-> TRUE, faces |-> 1],
      [success |-> FALSE, faces |-> 0] }

\* The interval effect after a commit that changed one of its dependencies
\* [type, requiredUsers, isProcessing]: the old timer is cleared and a new one
\* is armed with the processFrame of the new render.
CAIntervalEffect(p, t, u) == CAClosure(p, t, u)

\* useEffect(() => { startCamera(); return () => stopCamera(); }, []) and the
\* first run of the interval effect.
MountCameraAnalysis(t) ==
    /\ mounted = "none"
    /\ Len(gum) < MaxMounts
    /\ mounted' = "CameraAnalysis"
    /\ gum' = GumCall(gum, "CameraAnalysis")
    /\ srcObject' = 0
    /\ videoWidth' = 0
    /\ videoHeight' = 0
    /\ canvas' = NewCanvas
    /\ isProcessing' = FALSE
    /\ type' = t
    /\ requiredUsers' = <<>>
    /\ results' = Null
    /\ interval' = CAIntervalEffect(FALSE, t, <<>>)
    /\ clock' = SetInterval(clock)
    /\ apiCalls' = {}
    /\ UNCHANGED <<inflight, cameraVars, captureVars, restVars>>

\* An unmount whose cleanup leaves the timer armed.
UnmountedKeepsTimer ==
    /\ mounted' = "none"
    /\ srcObject' = 0
    /\ videoWidth' = 0
    /\ videoHeight' = 0
    /\ canvas' = NewCanvas
    /\ isProcessing' = FALSE
    /\ interval' = interval

\* The values a component's variables have while it is not mounted.
Unmounted ==
    /\ mounted' = "none"
    /\ srcObject' = 0
    /\ videoWidth' = 0
    /\ videoHeight' = 0
    /\ canvas' = NewCanvas
    /\ isProcessing' = FALSE
    /\ interval' = NoTimer

\* Unmount: the interval effect's cleanup clears the timer and the camera
\* effect's cleanup calls stopCamera.  stopCamera reads videoRef.current in a
\* passive effect cleanup: React 16 runs it before the ref is detached, React
\* 17 and later after the ref has been set to null, so the ref is either.
UnmountCameraAnalysis ==
    /\ CAMounted
    /\ \E refAttached \in BOOLEAN :
          gum' = Disown(IF refAttached /\ srcObject # 0
                        THEN StopTracks(gum, srcObject)
                        ELSE gum)
    /\ inflight' = [i \in 1..Len(inflight) |-> [inflight[i] EXCEPT !.alive = FALSE]]
    /\ apiCalls' = {}
    /\ Unmounted
    /\ type' = "none"
    /\ requiredUsers' = <<>>
    /\ results' = Null
    /\ UNCHANGED <<cameraVars, clock, captureVars, restVars>>

\* The route parameter changes while the component stays mounted.
ChangeType(t) ==
    /\ CAMounted
    /\ t # type
    /\ type' = t
    /\ interval' = CAIntervalEffect(isProcessing, t, requiredUsers)
    /\ clock' = SetInterval(clock)
    /\ apiCalls' = {}
    /\ UNCHANGED <<mounted, gum, srcObject, videoWidth, videoHeight, canvas,
                   isProcessing, requiredUsers, results, inflight, cameraVars,
                   captureVars, restVars>>

\* onChange of the "Required Users" input, rendered when type === 'group'.
\* Every change stores a new array, so the interval effect re-runs.
ChangeRequiredUsers(text) ==
    /\ CAMounted
    /\ type = "group"
    /\ requiredUsers' = SplitTrim(text)
    /\ interval' = CAIntervalEffect(isProcessing, type, SplitTrim(text))
    /\ clock' = SetInterval(clock)
    /\ apiCalls' = {}
    /\ UNCHANGED <<mounted, gum, srcObject, videoWidth, videoHeight, canvas,
                   isProcessing, type, results, inflight, cameraVars,
                   captureVars, restVars>>

\* One firing of setInterval(processFrame, 1000): processFrame up to its
\* first await, with the commit its state update causes.
CATick ==
    /\ CAMounted
    /\ interval.armed
    /\ TickDue
    /\ canvas' = captureFrameCanvas
    /\ LET frame == captureFrame
           endpoint == Endpoint(interval.type)
       IN  IF ProcessFrameReturnsEarly(frame, interval)
           THEN /\ apiCalls' = {"drawImage", "toDataURL"}
                /\ clock' = SetInterval(clock)
                /\ UNCHANGED <<isProcessing, interval, inflight>>
           ELSE IF InvalidType(interval.type)
           THEN \* default: throw; catch logs; finally resets the flag
                /\ isProcessing' = FALSE
                /\ interval' = IF isProcessing
                               THEN CAIntervalEffect(FALSE, type, requiredUsers)
                               ELSE interval
                /\ apiCalls' = {"drawImage", "toDataURL", "console.error"}
                /\ clock' = SetInterval(clock)
                /\ UNCHANGED inflight
           ELSE /\ Len(inflight) < MaxInflight
                /\ inflight' = Append(inflight,
                       [alive |-> TRUE, type |-> interval.type,
                        requiredUsers |-> interval.requiredUsers,
                        request |-> [endpoint |-> endpoint,
                                     payload |-> Payload(interval.type, frame,
                                                         interval.requiredUsers)],
                        pc |-> "fetch"])
                /\ isProcessing' = TRUE
                /\ interval' = IF isProcessing
                               THEN interval
                               ELSE CAIntervalEffect(TRUE, type, requiredUsers)
                /\ apiCalls' = {"drawImage", "toDataURL", "fetch"}
                /\ clock' = SetInterval(StartFetch(clock))
    /\ UNCHANGED <<mounted, gum, srcObject, videoWidth, videoHeight,
                   type, requiredUsers, results, cameraVars, captureVars,
                   restVars>>

\* The component instance that started invocation r is still mounted, so its
\* state setters and its canvasRef still act.
Alive(r) == r.alive

Remove(seq, i) == SubSeq(seq, 1, i - 1) \o SubSeq(seq, i + 1, Len(seq))

\* A finally that leaves the flag set.
FinallyLeavesBusy(r) == UNCHANGED <<isProcessing, interval, clock>>

\* finally { setIsProcessing(false); } and the commit it causes.
Finally(r) ==
    IF Alive(r) /\ isProcessing
    THEN /\ isProcessing' = FALSE
         /\ interval' = CAIntervalEffect(FALSE, type, requiredUsers)
         /\ clock' = SetInterval(clock)
    ELSE UNCHANGED <<isProcessing, interval, clock>>

\* catch (error) { console.error(...) } finally { ... }: nothing but the log
\* and the flag.
CatchFinally(i) ==
    /\ inflight' = Remove(inflight, i)
    /\ Finally(inflight[i])
    /\ apiCalls' = {"console.error"}
    /\ UNCHANGED <<mounted, gum, srcObject, videoWidth, videoHeight, canvas,
                   type, requiredUsers, results, cameraVars, captureVars,
                   restVars>>

\* The fetch promise resolves with a response; !response.ok throws.
FetchResolve(i, ok) ==
    /\ i \in 1..Len(inflight)
    /\ inflight[i].pc = "fetch"
    /\ SettleDue
    /\ IF ok
       THEN /\ inflight' = [inflight EXCEPT ![i].pc = "json"]
            /\ apiCalls' = {}
            /\ UNCHANGED <<mounted, gum, srcObject, videoWidth, videoHeight,
                           canvas, isProcessing, interval, type, requiredUsers,
                           results, cameraVars, clock, captureVars, restVars>>
       ELSE CatchFinally(i)

\* The fetch promise rejects: no response was received.
FetchReject(i) ==
    /\ i \in 1..Len(inflight)
    /\ inflight[i].pc = "fetch"
    /\ SettleDue
    /\ CatchFinally(i)

\* response.json() rejects: the body cannot be parsed.
JsonReject(i) ==
    /\ i \in 1..Len(inflight)
    /\ inflight[i].pc = "json"
    /\ SettleDue
    /\ CatchFinally(i)

\* if (canvasRef.current) ... data.faces?.forEach(strokeRect, fillText)
DrawResults(r, data) ==
    IF Alive(r) /\ data.faces > 0
    THEN [canvas EXCEPT !.boxes = TRUE]
    ELSE canvas

\* setResults(data)
SetResults(r, data) == IF Alive(r) THEN data ELSE results

\* response.json() resolves with the parsed body: setResults(data), the
\* boxes are drawn, then finally.
JsonResolve(i) ==
    /\ i \in 1..Len(inflight)
    /\ inflight[i].pc = "json"
    /\ SettleDue
    /\ \E data \in Bodies :
          /\ results' = SetResults(inflight[i], data)
          /\ canvas' = DrawResults(inflight[i], data)
    /\ inflight' = Remove(inflight, i)
    /\ Finally(inflight[i])
    /\ apiCalls' = {}
    /\ UNCHANGED <<mounted, gum, srcObject, videoWidth, videoHeight,
                   type, requiredUsers, cameraVars, captureVars, restVars>>

\* --------------------------------------------------------------------- Camera
CamMounted == mounted = "Camera"

CameraErrorMsg ==
    "Failed to access camera. Please make sure you have granted camera permissions."

\* The callback handed to setInterval closes over the render's isProcessing,
\* continuousProcessing and isActive.
CamClosure(p, c, a) ==
    [armed |-> TRUE, isProcessing |-> p, continuousProcessing |-> c, isActive |-> a]

\* The interval effect [continuousProcessing, isActive, isProcessing,
\* processingInterval]: if (continuousProcessing && isActive) setInterval(...).
CamIntervalEffect(p, c, a) == IF c /\ a THEN CamClosure(p, c, a) ELSE NoTimer

\* Cleanup of the camera effect: if (stream) stream.getTracks().forEach(stop).
\* `stream` is assigned only when the effect run's getUserMedia has resolved.
CamCleanupGum == IF Live(stream) THEN StopTracks(gum, stream) ELSE gum

\* The Camera is mounted with props isActive = a, continuousProcessing = c;
\* the camera effect calls getUserMedia if (isActive).
MountCamera(a, c) ==
    /\ mounted = "none"
    /\ a => Len(gum) < MaxAcquire
    /\ mounted' = "Camera"
    /\ isActive' = a
    /\ continuousProcessing' = c
    /\ error' = ""
    /\ gum' = IF a THEN GumCall(gum, "Camera") ELSE gum
    /\ stream' = IF a THEN Len(gum) + 1 ELSE 0
    /\ srcObject' = 0
    /\ videoWidth' = 0
    /\ videoHeight' = 0
    /\ canvas' = NewCanvas
    /\ isProcessing' = FALSE
    /\ interval' = CamIntervalEffect(FALSE, c, a)
    /\ apiCalls' = {}
    /\ UNCHANGED <<inflight, cameraAnalysisVars, clock, captureVars, restVars>>

\* The parent re-renders the Camera with another isActive: the camera
\* effect's cleanup runs, then the effect itself; so does the interval effect.
SetIsActive(a) ==
    /\ CamMounted
    /\ a # isActive
    /\ a => Len(gum) < MaxAcquire
    /\ isActive' = a
    /\ gum' = IF a THEN GumCall(CamCleanupGum, "Camera") ELSE CamCleanupGum
    /\ stream' = IF a THEN Len(gum) + 1 ELSE 0
    /\ interval' = CamIntervalEffect(isProcessing, continuousProcessing, a)
    /\ apiCalls' = {}
    /\ UNCHANGED <<mounted, srcObject, videoWidth, videoHeight, canvas,
                   isProcessing, continuousProcessing, error, inflight,
                   cameraAnalysisVars, clock, captureVars, restVars>>

\* The parent re-renders the Camera with another continuousProcessing: only
\* the interval effect re-runs.
SetContinuousProcessing(c) ==
    /\ CamMounted
    /\ c # continuousProcessing
    /\ continuousProcessing' = c
    /\ interval' = CamIntervalEffect(isProcessing, c, isActive)
    /\ apiCalls' = {}
    /\ UNCHANGED <<mounted, gum, srcObject, videoWidth, videoHeight, canvas,
                   isProcessing, isActive, error, stream, inflight,
                   cameraAnalysisVars, clock, captureVars, restVars>>

\* A camera effect that lists mode among its dependencies.
ChangeModeRestartsCamera(m) ==
    /\ CamMounted
    /\ isActive
    /\ m # mode
    /\ Len(gum) < MaxAcquire
    /\ mode' = m
    /\ gum' = GumCall(CamCleanupGum, "Camera")
    /\ stream' = Len(gum) + 1
    /\ apiCalls' = {}
    /\ UNCHANGED <<mounted, srcObject, videoWidth, videoHeight, canvas,
                   isProcessing, interval, inflight, isActive,
                   continuousProcessing, error, cameraAnalysisVars, clock,
                   captureVars, page, name, maxImagesReached, disk,
                   location, readers, pageSuccess, pageResult, pageProcessing,
                   requests, overlayVars>>

\* Analysis re-renders the Camera with another mode: no dependency list of
\* Camera's effects holds mode, so no cleanup and no effect runs.
ChangeMode(m) ==
    /\ CamMounted
    /\ isActive
    /\ m # mode
    /\ mode' = m
    /\ apiCalls' = {}
    /\ UNCHANGED <<mounted, gum, srcObject, videoWidth, videoHeight, canvas,
                   isProcessing, interval, inflight, cameraVars,
                   cameraAnalysisVars, clock, captureVars, page, name,
                   maxImagesReached, disk, location, readers, pageSuccess,
                   pageResult, pageProcessing, requests, overlayVars>>

\* The Camera is unmounted: the cleanups of its effects run.
UnmountCamera ==
    /\ CamMounted
    /\ gum' = Disown(CamCleanupGum)
    /\ apiCalls' = {}
    /\ Unmounted
    /\ isActive' = FALSE
    /\ continuousProcessing' = FALSE
    /\ error' = ""
    /\ stream' = 0
    /\ UNCHANGED <<inflight, cameraAnalysisVars, clock, captureVars, restVars>>

\* if (!videoRef.current || !canvasRef.current || isProcessing) return;
CaptureReturnsEarly(p) == ~CamMounted \/ p

\* Analysis.handleCameraCapture, the onCapture the Analysis page gives its
\* Camera: the frame becomes the preview and the only selected image; under
\* continuousProcessing nothing more is done.
handleCameraCapture(imageData) ==
    /\ imagePreview' = imageData
    /\ selectedImages' = <<imageData>>
    /\ pageError' = ""

\* captureAndProcess past its guard: the canvas takes the video's size, the
\* frame is drawn, encoded and handed to onCapture; isProcessing is set and
\* reset in the same synchronous run.
captureAndProcess ==
    /\ canvas' = captureFrameCanvas
    /\ apiCalls' = {"drawImage", "toDataURL", "onCapture"}
    /\ handleCameraCapture(captureFrame)

\* processFrame of the interval effect:
\* if (!isProcessing && continuousProcessing && videoRef.current && isActive)
ProcessFrameCaptures(closure) ==
    ~closure.isProcessing /\ closure.continuousProcessing /\ CamMounted /\ closure.isActive

\* One firing of setInterval(processFrame, processingInterval).
CamTick ==
    /\ CamMounted
    /\ interval.armed
    /\ IF ProcessFrameCaptures(interval) /\ ~CaptureReturnsEarly(isProcessing)
       THEN captureAndProcess
       ELSE /\ canvas' = canvas
            /\ apiCalls' = {}
            /\ UNCHANGED captureVars
    /\ UNCHANGED <<mounted, gum, srcObject, videoWidth, videoHeight,
                   isProcessing, interval, inflight, cameraVars,
                   cameraAnalysisVars, clock, restVars>>

\* The Capture button, rendered when !continuousProcessing.
CaptureClick ==
    /\ CamMounted
    /\ ~continuousProcessing
    /\ IF CaptureReturnsEarly(isProcessing)
       THEN /\ canvas' = canvas
            /\ apiCalls' = {}
            /\ UNCHANGED captureVars
       ELSE captureAndProcess
    /\ UNCHANGED <<mounted, gum, srcObject, videoWidth, videoHeight,
                   isProcessing, interval, inflight, cameraVars,
                   cameraAnalysisVars, clock, restVars>>

\* Numbers that are not integers are kept as fractions.
Times(v, q) == [num |-> v * q.num, den |-> q.den]

\* const scale = canvasRef.current.width / videoRef.current.videoWidth
Scale == [num |-> canvas.width, den |-> videoWidth]

\* ctx.strokeRect(x * scale, y * scale, w * scale, h * scale)
strokeRect(box, scale) ==
    [x |-> Times(box[1], scale), y |-> Times(box[2], scale),
     w |-> Times(box[3], scale), h |-> Times(box[4], scale)]

\* Boxes [x, y, w, h] of the faces the parent passes as detectedFaces.
Boxes == {<<0, 0, 1, 1>>, <<1, 2, 2, 1>>}

\* One run of drawDetections in the animation loop, which runs while
\* isActive: the canvas is cleared, the video frame is drawn over the whole
\* canvas and every face's box is stroked.
drawDetections ==
    /\ CamMounted
    /\ isActive
    /\ rects' = [i \in 1..Len(detectedFaces) |->
                    strokeRect(detectedFaces[i].box, Scale)]
    /\ canvas' = [canvas EXCEPT !.boxes = detectedFaces # <<>>]
    /\ apiCalls' = {}
    /\ UNCHANGED <<mounted, gum, srcObject, videoWidth, videoHeight,
                   isProcessing, interval, inflight, cameraVars,
                   cameraAnalysisVars, clock, captureVars, formVars,
                   detectedFaces>>

\* ------------------------------------------------------------- environment
\* The component instance that made getUserMedia call k is still mounted, so
\* its videoRef.current is the video element and its state setters act.
OwnerMounted(k) == gum[k].owner

\* getUserMedia call k resolves with a stream:
\* if (videoRef.current) videoRef.current.srcObject = stream
GumResolve(k) ==
    /\ Pending(k)
    /\ gum' = [gum EXCEPT ![k].state = "live"]
    /\ srcObject' = IF OwnerMounted(k) THEN k ELSE srcObject
    /\ apiCalls' = {}
    /\ UNCHANGED <<mounted, videoWidth, videoHeight, canvas, isProcessing,
                   interval, inflight, cameraVars, cameraAnalysisVars, clock,
                   captureVars, restVars>>

\* getUserMedia call k rejects.  CameraAnalysis: console.error only.
\* Camera: setError(...).
GumReject(k) ==
    /\ Pending(k)
    /\ gum' = [gum EXCEPT ![k].state = "rejected"]
    /\ error' = IF OwnerMounted(k) /\ gum[k].comp = "Camera"
                THEN CameraErrorMsg ELSE error
    /\ apiCalls' = {}
    /\ UNCHANGED <<mounted, srcObject, videoWidth, videoHeight, canvas,
                   isProcessing, interval, inflight, isActive,
                   continuousProcessing, stream, cameraAnalysisVars, clock,
                   captureVars, restVars>>

\* The video element has loaded the metadata of a live stream: videoWidth
\* and videoHeight become the stream's frame size.
VideoLoaded ==
    /\ mounted # "none"
    /\ Live(srcObject)
    /\ videoWidth = 0
    /\ videoWidth' = VideoW
    /\ videoHeight' = VideoH
    /\ apiCalls' = {}
    /\ UNCHANGED <<mounted, gum, srcObject, canvas, isProcessing, interval,
                   inflight, cameraVars, cameraAnalysisVars, clock, captureVars,
                   restVars>>

\* Time passes until the next firing of the timer or the settling of the
\* request in flight, whichever is first; what is due now happens first.
Deadlines ==
    (IF interval.armed THEN {clock.fireAt} ELSE {})
        \cup (IF inflight # <<>> THEN {clock.settleAt} ELSE {})

Min(S) == CHOOSE d \in S : \A e \in S : d <= e

Tock ==
    /\ clock.running
    /\ CAMounted
    /\ Deadlines # {}
    /\ \A d \in Deadlines : d > clock.now
    /\ Min(Deadlines) <= MaxTime
    /\ clock' = [clock EXCEPT !.now = Min(Deadlines)]
    /\ apiCalls' = {}
    /\ UNCHANGED <<mounted, gum, srcObject, videoWidth, videoHeight, canvas,
                   isProcessing, interval, inflight, cameraVars,
                   cameraAnalysisVars, captureVars, restVars>>

\* ----------------------------------------------------------------- form pages
\* Analysis (input method 'upload'), FaceRegistration and GroupAnalysis: the
\* user picks files, FileReaders complete, a submit posts the images, the
\* response or the failure of the request is handled.
FormPages == {"Analysis", "FaceRegistration", "GroupAnalysis", "CrowdAnalysis"}

\* The pages that read one file into imageBase64.
SingleImagePages == {"GroupAnalysis", "CrowdAnalysis"}

\* What the live components leave to the form pages and the form pages
\* leave to them.
liveVars == <<mounted, gum, srcObject, videoWidth, videoHeight, canvas,
              isProcessing, interval, type, results, inflight, cameraVars,
              apiCalls, clock, rects>>

\* useState defaults: Analysis 'identify', GroupAnalysis 'analysis'.
InitialMode(p) ==
    CASE p = "Analysis" -> "identify"
      [] p = "GroupAnalysis" -> "analysis"
      [] OTHER -> "none"

Modes(p) ==
    CASE p = "Analysis" -> {"identify", "register"}
      [] p = "GroupAnalysis" -> {"analysis", "verification"}
      [] OTHER -> {}

\* Texts typed in the name input.
Names == {"alice", " "}

\* registeredUsers as fetched by GroupAnalysis on mount.
RegisteredUsers == {"alice", "bob"}

\* Contents of image files as data URLs.
ImageA == "data:image/png;base64,AAAA"
ImageB == "data:image/png;base64,BBBB"

\* reader.result for the k-th file of a selection.
FileData(k) == disk[IF k <= Len(disk) THEN k ELSE Len(disk)]

\* Numbers of files picked in one file dialog.
FileCounts == {2, MaxFiles}

\* An optional field of a parsed body: data.f, undefined read as false / ''
\* / [].
Flag(d, f) == f \in DOMAIN d /\ d[f]
Text(d, f) == IF f \in DOMAIN d THEN d[f] ELSE ""
List(d, f) == IF f \in DOMAIN d THEN d[f] ELSE <<>>

\* a || b on strings
Or(a, b) == IF a # "" THEN a ELSE b

\* Bodies the backend may answer with, per endpoint.  The backend is not
\* part of the sources; a verify-group body carries the missing users
\* under the name of the API table (missingUsers) or under the name
\* GroupAnalysis declares (missing_users).
FailureBodies ==
    { [success |-> FALSE], [success |-> FALSE, message |-> "No face detected"] }

ResponseBodies(endpoint) ==
    CASE endpoint = "/api/register-face" ->
            {[success |-> TRUE, results |-> <<[box |-> <<0, 0, 1, 1>>]>>]}
                \cup FailureBodies
      [] endpoint = "/api/identify-face" ->
            {[success |-> TRUE, results |-> <<[box |-> <<0, 0, 1, 1>>]>>]}
                \cup FailureBodies
      [] endpoint = "/api/analyze-group" ->
            {[success |-> TRUE, faces |-> <<"alice">>]} \cup FailureBodies
      [] endpoint = "/api/crowd-count" ->
            {[success |-> TRUE, total_count |-> 3]} \cup FailureBodies
      [] endpoint = "/api/verify-group" ->
            { [success |-> TRUE, faces |-> <<"alice", "bob">>, verified |-> TRUE,
               missingUsers |-> <<>>],
              [success |-> TRUE, faces |-> <<"alice">>, verified |-> FALSE,
               missingUsers |-> <<"bob">>],
              [success |-> TRUE, faces |-> <<"alice">>, verified |-> FALSE,
               missing_users |-> <<"bob">>] } \cup FailureBodies
      [] OTHER -> {}

AllBodies ==
    UNION {ResponseBodies(e) : e \in {"/api/register-face", "/api/identify-face",
                                      "/api/analyze-group", "/api/verify-group",
                                      "/api/crowd-count"}}

\* What a request may reject with.  props: the own properties of the error
\* object.  axios rejects with an error that holds the response when the
\* server answered with a failure status; when no response arrived, the
\* error holds the request, and its response property is undefined or is
\* not set at all, depending on the axios release that is installed.  An
\* error raised before the request was made holds neither.
Rejections ==
    { [props |-> {"request", "response"}, response |-> [message |-> m],
       responded |-> TRUE, request |-> TRUE] : m \in {"", "Server error"} }
    \cup
    { [props |-> p, response |-> [message |-> ""], responded |-> FALSE,
       request |-> TRUE] : p \in {{"request", "response"}, {"request"}} }
    \cup
    { [props |-> {}, response |-> [message |-> ""], responded |-> FALSE,
       request |-> FALSE] }

\* typeof error === 'object' && error !== null && 'response' in error
isAxiosError(err) == "response" \in err.props

\* The state of the render a handler runs in (imgs, preview, mx) and what
\* the handler sets.
FormCommit(imgs, preview, mx, err, succ, res, proc, reqs) ==
    /\ selectedImages' = imgs
    /\ imagePreview' = preview
    /\ maxImagesReached' = mx
    /\ pageError' = err
    /\ pageSuccess' = succ
    /\ pageResult' = res
    /\ pageProcessing' = proc
    /\ requests' = reqs

\* An early return with setError(msg).
FormError(imgs, preview, mx, msg) ==
    FormCommit(imgs, preview, mx, msg, pageSuccess, pageResult,
               pageProcessing, requests)

\* Analysis.handleRegisterFace up to its await.
handleRegisterFace(imgs, preview, mx) ==
    IF Trim(name) = ""
    THEN FormError(imgs, preview, mx, "Please enter a name")
    ELSE IF Len(imgs) = 0
    THEN FormError(imgs, preview, mx, "Please upload at least one image")
    ELSE /\ Len(requests) < MaxRequests
         /\ FormCommit(imgs, preview, mx, "", "", pageResult, TRUE,
                Append(requests,
                    [handler |-> "handleRegisterFace",
                     endpoint |-> "/api/register-face",
                     body |-> [name |-> Trim(name), images |-> imgs],
                     name |-> name, mode |-> mode]))

\* Analysis.handleIdentifyFace up to its await.
handleIdentifyFace(imgs, preview, mx) ==
    IF preview = ""
    THEN FormError(imgs, preview, mx,
                   "Please select an image or capture one from camera")
    ELSE /\ Len(requests) < MaxRequests
         /\ FormCommit(imgs, preview, mx, "", pageSuccess, Null, TRUE,
                Append(requests,
                    [handler |-> "handleIdentifyFace",
                     endpoint |-> "/api/identify-face",
                     body |-> [image |-> preview],
                     name |-> name, mode |-> mode]))

\* Analysis.handleSubmit
AnalysisHandleSubmit(imgs, preview, mx) ==
    IF Len(imgs) = 0 /\ preview = ""
    THEN FormError(imgs, preview, mx,
                   "Please select an image or capture one from camera")
    ELSE IF mode = "register"
    THEN handleRegisterFace(imgs, preview, mx)
    ELSE handleIdentifyFace(imgs, preview, mx)

\* FaceRegistration.handleSubmit up to its await.
RegistrationHandleSubmit(imgs, preview, mx) ==
    IF Len(imgs) = 0
    THEN FormError(imgs, preview, mx, "Please upload at least one image")
    ELSE IF name = ""
    THEN FormError(imgs, preview, mx, "Please enter a name")
    ELSE /\ Len(requests) < MaxRequests
         /\ FormCommit(imgs, preview, mx, pageError, pageSuccess, pageResult,
                TRUE,
                Append(requests,
                    [handler |-> "FaceRegistration.handleSubmit",
                     endpoint |-> "/api/register-face",
                     body |-> [images |-> imgs, name |-> name],
                     name |-> name, mode |-> mode]))

\* requestData = { image, ...(mode === 'verification' && { required_users }) }
GroupRequestData(m, image, users) ==
    IF m = "verification"
    THEN [image |-> image, required_users |-> users]
    ELSE [image |-> image]

GroupEndpoint(m) ==
    IF m = "analysis" THEN "/api/analyze-group" ELSE "/api/verify-group"

\* GroupAnalysis.handleSubmit up to its await.
GroupHandleSubmit(imgs, preview, mx) ==
    IF preview = ""
    THEN FormError(imgs, preview, mx,
                   "Please select an image or capture one from the camera")
    ELSE IF mode = "verification" /\ Len(requiredUsers) = 0
    THEN FormError(imgs, preview, mx,
                   "Please select at least one required user for verification")
    ELSE /\ Len(requests) < MaxRequests
         /\ FormCommit(imgs, preview, mx, "", pageSuccess, Null, TRUE,
                Append(requests,
                    [handler |-> "GroupAnalysis.handleSubmit",
                     endpoint |-> GroupEndpoint(mode),
                     body |-> GroupRequestData(mode, preview, requiredUsers),
                     name |-> name, mode |-> mode]))

\* CrowdAnalysis.handleSubmit up to its await.
CrowdHandleSubmit(imgs, preview, mx) ==
    IF preview = ""
    THEN FormError(imgs, preview, mx,
                   "Please upload an image or capture one from the camera")
    ELSE /\ Len(requests) < MaxRequests
         /\ FormCommit(imgs, preview, mx, "", pageSuccess, Null, TRUE,
                Append(requests,
                    [handler |-> "CrowdAnalysis.handleSubmit",
                     endpoint |-> "/api/crowd-count",
                     body |-> [image |-> preview],
                     name |-> name, mode |-> mode]))

\* The submit handler of the page shown.
PageHandleSubmit(imgs, preview, mx) ==
    CASE page = "Analysis" -> AnalysisHandleSubmit(imgs, preview, mx)
      [] page = "FaceRegistration" -> RegistrationHandleSubmit(imgs, preview, mx)
      [] page = "GroupAnalysis" -> GroupHandleSubmit(imgs, preview, mx)
      [] page = "CrowdAnalysis" -> CrowdHandleSubmit(imgs, preview, mx)

\* The routes of App, in the order of the source: the segments of the path
\* and the element.  The routes after /about are children of PrivateRoute.
Routes ==
    << [path |-> <<>>,                            element |-> "Home"],
       [path |-> <<"login">>,                     element |-> "Login"],
       [path |-> <<"register">>,                  element |-> "Register"],
       [path |-> <<"about">>,                     element |-> "About"],
       [path |-> <<"dashboard">>,                 element |-> "Dashboard"],
       [path |-> <<"face-registration">>,         element |-> "FaceRegistration"],
       [path |-> <<"face-analysis">>,             element |-> "Analysis"],
       [path |-> <<"camera-analysis", ":type">>,  element |-> "CameraAnalysis"],
       [path |-> <<"gallery">>,                   element |-> "Gallery"],
       [path |-> <<"group-analysis">>,            element |-> "GroupAnalysis"],
       [path |-> <<"crowd-analysis">>,            element |-> "CrowdAnalysis"] >>

\* A route's path matches a pathname when they have the same number of
\* segments and each segment is equal or the route's segment is a parameter.
MatchesPath(path, pathname) ==
    /\ Len(path) = Len(pathname)
    /\ \A k \in 1..Len(path) : path[k] = ":type" \/ path[k] = pathname[k]

\* The element Routes renders for a pathname; path="*" matches when no
\* other route does and renders Navigate.
Match(pathname) ==
    IF \E r \in 1..Len(Routes) : MatchesPath(Routes[r].path, pathname)
    THEN Routes[CHOOSE r \in 1..Len(Routes) :
                    MatchesPath(Routes[r].path, pathname)].element
    ELSE "Navigate"

\* The path of the route whose element is p.
RoutePath(p) ==
    Routes[CHOOSE r \in 1..Len(Routes) : Routes[r].element = p].path

\* Dashboard.features: title and path.
features ==
    << [title |-> "Face Registration",    path |-> <<"face-registration">>],
       [title |-> "Face Identification",  path |-> <<"analysis", "face">>],
       [title |-> "Group Authentication", path |-> <<"analysis", "group">>],
       [title |-> "Crowd Counting",       path |-> <<"analysis", "crowd">>],
       [title |-> "Group Analysis",       path |-> <<"group-analysis">>] >>

\* The form page a pathname shows, "none" for the other elements.
PageAt(pathname) ==
    IF Match(pathname) \in FormPages THEN Match(pathname) ELSE "none"

\* The router shows one of the form pages.
OpenPage(p) ==
    /\ page = "none"
    /\ mounted = "none"
    /\ page' = p
    /\ mode' = InitialMode(p)
    /\ location' = RoutePath(p)
    /\ UNCHANGED <<name, selectedImages, maxImagesReached, imagePreview,
                   readers, pageError, pageSuccess, pageResult, pageProcessing,
                   requests, requiredUsers, detectedFaces, liveVars,
                   disk>>

\* An authenticated user opens /dashboard from the home page.
OpenDashboard ==
    /\ page = "none"
    /\ mounted = "none"
    /\ location = <<>>
    /\ location' = <<"dashboard">>
    /\ UNCHANGED <<page, mode, name, selectedImages, maxImagesReached,
                   imagePreview, readers, pageError, pageSuccess, pageResult,
                   pageProcessing, requests, requiredUsers, detectedFaces,
                   liveVars, disk>>

\* onClick={() => navigate(feature.path)} of the k-th feature card: the
\* location changes and Routes renders the element that matches it.
DashboardClick(k) ==
    /\ Match(location) = "Dashboard"
    /\ k \in 1..Len(features)
    /\ location' = features[k].path
    /\ page' = PageAt(features[k].path)
    /\ mode' = InitialMode(PageAt(features[k].path))
    /\ UNCHANGED <<name, selectedImages, maxImagesReached, imagePreview,
                   readers, pageError, pageSuccess, pageResult, pageProcessing,
                   requests, requiredUsers, detectedFaces, liveVars,
                   disk>>

\* <Navigate to="/" replace />, rendered by the route with path="*".
NavigateReplace ==
    /\ Match(location) = "Navigate"
    /\ location' = <<>>
    /\ UNCHANGED <<page, mode, name, selectedImages, maxImagesReached,
                   imagePreview, readers, pageError, pageSuccess, pageResult,
                   pageProcessing, requests, requiredUsers, detectedFaces,
                   liveVars, disk>>

\* onClick={() => setMode(m)}
SetMode(m) ==
    /\ m \in Modes(page)
    /\ m # mode
    /\ mode' = m
    /\ UNCHANGED <<page, name, selectedImages, maxImagesReached, imagePreview,
                   readers, pageError, pageSuccess, pageResult, pageProcessing,
                   requests, requiredUsers, detectedFaces, liveVars,
                   disk, location>>

\* onChange={(e) => setName(e.target.value)}; Analysis renders the input in
\* register mode.
SetName(n) ==
    /\ \/ page = "Analysis" /\ mode = "register"
       \/ page = "FaceRegistration"
    /\ n # name
    /\ name' = n
    /\ UNCHANGED <<page, mode, selectedImages, maxImagesReached, imagePreview,
                   readers, pageError, pageSuccess, pageResult, pageProcessing,
                   requests, requiredUsers, detectedFaces, liveVars,
                   disk, location>>

\* The checkbox of a registered user, rendered in verification mode.
ToggleRequiredUser(u) ==
    /\ page = "GroupAnalysis"
    /\ mode = "verification"
    /\ requiredUsers' =
          IF \E k \in 1..Len(requiredUsers) : requiredUsers[k] = u
          THEN SelectSeq(requiredUsers, LAMBDA x : x # u)
          ELSE Append(requiredUsers, u)
    /\ UNCHANGED <<page, mode, name, selectedImages, maxImagesReached,
                   imagePreview, readers, pageError, pageSuccess, pageResult,
                   pageProcessing, requests, detectedFaces, liveVars,
                   disk, location>>

\* handleImageUpload of Analysis and of FaceRegistration, for a dialog that
\* returns n files.  newImages is never added to, so the test
\* selectedImages.length + newImages.length < 5 has the same outcome for
\* every file of the selection.  The input is disabled while
\* maxImagesReached.
handleImageUpload(n) ==
    /\ page \in {"Analysis", "FaceRegistration"}
    /\ ~maxImagesReached
    /\ readers = <<>>
    /\ Len(selectedImages) + n <= MaxFiles
    /\ readers' =
          IF Len(selectedImages) + 0 < MaxImages
          THEN readers \o [k \in 1..n |->
                              [file |-> FileData(k),
                               sawPreview |-> imagePreview # ""]]
          ELSE readers
    /\ UNCHANGED <<page, mode, name, selectedImages, maxImagesReached,
                   imagePreview, pageError, pageSuccess, pageResult,
                   pageProcessing, requests, requiredUsers, detectedFaces,
                   liveVars, disk, location>>

\* GroupAnalysis.handleFileChange, CrowdAnalysis.handleFileUpload: the first
\* file of the selection is read.
handleFileChange ==
    /\ page \in SingleImagePages
    /\ readers = <<>>
    /\ readers' = Append(readers, [file |-> FileData(1), sawPreview |-> FALSE])
    /\ UNCHANGED <<page, mode, name, selectedImages, maxImagesReached,
                   imagePreview, pageError, pageSuccess, pageResult,
                   pageProcessing, requests, requiredUsers, detectedFaces,
                   liveVars, disk, location>>

\* reader.onloadend.  Analysis, FaceRegistration: the image is appended with
\* a functional update and maxImagesReached follows the new length; Analysis
\* sets the preview when the render that started the reader had none.
\* GroupAnalysis, CrowdAnalysis: setImageBase64, setError(null).
ReaderLoadEnd(i) ==
    /\ i \in 1..Len(readers)
    /\ readers' = Remove(readers, i)
    /\ IF page \in SingleImagePages
       THEN /\ imagePreview' = readers[i].file
            /\ pageError' = ""
            /\ UNCHANGED <<selectedImages, maxImagesReached>>
       ELSE /\ selectedImages' = Append(selectedImages, readers[i].file)
            /\ maxImagesReached' = (Len(selectedImages) + 1 >= MaxImages)
            /\ imagePreview' = IF page = "Analysis" /\ ~readers[i].sawPreview
                               THEN readers[i].file
                               ELSE imagePreview
            /\ UNCHANGED pageError
    /\ UNCHANGED <<page, mode, name, pageSuccess, pageResult, pageProcessing,
                   requests, requiredUsers, detectedFaces, liveVars,
                   disk, location>>

\* removeImage(indexToRemove): the preview after the removal.  Analysis
\* compares the removed image with the preview; FaceRegistration has no
\* preview.
PreviewAfterRemove(i) ==
    IF page = "Analysis" /\ selectedImages[i] = imagePreview
    THEN IF Len(selectedImages) > 1 THEN selectedImages[1] ELSE ""
    ELSE imagePreview

\* A click on the X of image i.  The button is inside the form and has no
\* type, so it is a submit button: after onClick has run removeImage and the
\* page has rendered again, the click submits the form if the button is
\* still in the document.  The buttons are keyed by index, so the button
\* stays unless it was the last one.
RemoveImageClick(i) ==
    /\ page \in {"Analysis", "FaceRegistration"}
    /\ i \in 1..Len(selectedImages)
    /\ LET imgs == Remove(selectedImages, i)
           preview == PreviewAfterRemove(i)
       IN  IF i <= Len(imgs)
           THEN PageHandleSubmit(imgs, preview, FALSE)
           ELSE FormCommit(imgs, preview, FALSE, pageError, pageSuccess,
                           pageResult, pageProcessing, requests)
    /\ UNCHANGED <<page, mode, name, readers, requiredUsers, detectedFaces,
                   liveVars, disk, location>>

\* A click on the submit button, disabled while isProcessing; CrowdAnalysis
\* disables it without an image as well.
SubmitClick ==
    /\ page \in FormPages
    /\ ~pageProcessing
    /\ page = "CrowdAnalysis" => imagePreview # ""
    /\ PageHandleSubmit(selectedImages, imagePreview, maxImagesReached)
    /\ UNCHANGED <<page, mode, name, readers, requiredUsers, detectedFaces,
                   liveVars, disk, location>>

\* CrowdAnalysis.resetAnalysis, on the Reset button that is rendered while
\* an image is selected.
resetAnalysis ==
    /\ page = "CrowdAnalysis"
    /\ imagePreview # ""
    /\ imagePreview' = ""
    /\ pageResult' = Null
    /\ pageError' = ""
    /\ UNCHANGED <<page, mode, name, selectedImages, maxImagesReached, readers,
                   pageSuccess, pageProcessing, requests, requiredUsers,
                   detectedFaces, liveVars,
                   disk, location>>

\* if (response.data.results) setDetectedFaces(response.data.results)
SetDetectedFaces(data) ==
    IF "results" \in DOMAIN data THEN data.results ELSE detectedFaces

\* The request of handler invocation i got a response whose body parsed to
\* data: the rest of the try block, then finally.
PostResolve(i, data) ==
    /\ i \in 1..Len(requests)
    /\ data \in ResponseBodies(requests[i].endpoint)
    /\ requests' = Remove(requests, i)
    /\ pageProcessing' = FALSE
    /\ LET r == requests[i] IN
       CASE r.handler = "handleRegisterFace" ->
              IF Flag(data, "success")
              THEN /\ pageResult' = data
                   /\ pageSuccess' = r.name
                   /\ detectedFaces' = SetDetectedFaces(data)
                   /\ name' = ""
                   /\ selectedImages' = <<>>
                   /\ imagePreview' = ""
                   /\ maxImagesReached' = FALSE
                   /\ UNCHANGED pageError
              ELSE /\ pageError' = Or(Text(data, "message"), "Registration failed")
                   /\ UNCHANGED <<pageResult, pageSuccess, detectedFaces, name,
                                  selectedImages, imagePreview, maxImagesReached>>
         [] r.handler = "handleIdentifyFace" ->
              IF Flag(data, "success")
              THEN /\ pageResult' = data
                   /\ detectedFaces' = SetDetectedFaces(data)
                   /\ UNCHANGED <<pageError, pageSuccess, name, selectedImages,
                                  imagePreview, maxImagesReached>>
              ELSE /\ pageError' = Or(Text(data, "message"), "Identification failed")
                   /\ UNCHANGED <<pageResult, pageSuccess, detectedFaces, name,
                                  selectedImages, imagePreview, maxImagesReached>>
         [] r.handler = "FaceRegistration.handleSubmit" ->
              IF Flag(data, "success")
              THEN /\ pageSuccess' = r.name
                   /\ selectedImages' = <<>>
                   /\ maxImagesReached' = FALSE
                   /\ name' = ""
                   /\ UNCHANGED <<pageError, pageResult, detectedFaces,
                                  imagePreview>>
              ELSE /\ pageError' = Or(Text(data, "message"), "Registration failed")
                   /\ UNCHANGED <<pageResult, pageSuccess, detectedFaces, name,
                                  selectedImages, imagePreview, maxImagesReached>>
         [] r.handler = "CrowdAnalysis.handleSubmit" ->
              IF Flag(data, "success")
              THEN /\ pageResult' = data
                   /\ UNCHANGED <<pageError, pageSuccess, detectedFaces, name,
                                  selectedImages, imagePreview, maxImagesReached>>
              ELSE /\ pageError' = Or(Text(data, "message"), "Crowd counting failed")
                   /\ UNCHANGED <<pageResult, pageSuccess, detectedFaces, name,
                                  selectedImages, imagePreview, maxImagesReached>>
         [] r.handler = "GroupAnalysis.handleSubmit" ->
              IF Flag(data, "success")
              THEN /\ pageResult' = data
                   /\ UNCHANGED <<pageError, pageSuccess, detectedFaces, name,
                                  selectedImages, imagePreview, maxImagesReached>>
              ELSE /\ pageError' =
                         Or(Text(data, "message"),
                            IF r.mode = "analysis"
                            THEN "An error occurred during analysis"
                            ELSE "An error occurred during verification")
                   /\ UNCHANGED <<pageResult, pageSuccess, detectedFaces, name,
                                  selectedImages, imagePreview, maxImagesReached>>
    /\ UNCHANGED <<page, mode, readers, requiredUsers, liveVars,
                   disk, location>>

\* The catch block of GroupAnalysis.handleSubmit.
GroupCatch(err) ==
    IF isAxiosError(err)
    THEN IF err.responded
         THEN Or(err.response.message, "An error occurred during group analysis")
         ELSE IF err.request
         THEN "No response received from the server. Please check your network connection."
         ELSE "An unexpected error occurred. Please try again."
    ELSE "An unexpected error occurred. Please try again."

\* The catch block of the handler h for the error err.
Catch(h, err) ==
    CASE h = "handleRegisterFace" -> "Failed to register face. Please try again."
      [] h = "handleIdentifyFace" -> "Failed to identify face. Please try again."
      [] h = "FaceRegistration.handleSubmit" -> "Failed to register face. Please try again."
      [] h = "CrowdAnalysis.handleSubmit" -> "An error occurred during crowd analysis"
      [] h = "GroupAnalysis.handleSubmit" -> GroupCatch(err)

\* PostReject with a catch block that resets the form.
PostRejectResetsForm(i, err) ==
    /\ i \in 1..Len(requests)
    /\ err \in Rejections
    /\ requests' = Remove(requests, i)
    /\ pageProcessing' = FALSE
    /\ pageError' = Catch(requests[i].handler, err)
    /\ name' = ""
    /\ selectedImages' = <<>>
    /\ maxImagesReached' = FALSE
    /\ UNCHANGED <<page, mode, imagePreview, readers, pageSuccess, pageResult,
                   requiredUsers, detectedFaces, liveVars, disk, location>>

\* The request of handler invocation i rejected with err: catch, finally.
PostReject(i, err) ==
    /\ i \in 1..Len(requests)
    /\ err \in Rejections
    /\ requests' = Remove(requests, i)
    /\ pageProcessing' = FALSE
    /\ pageError' = Catch(requests[i].handler, err)
    /\ UNCHANGED <<page, mode, name, selectedImages, maxImagesReached,
                   imagePreview, readers, pageSuccess, pageResult,
                   requiredUsers, detectedFaces, liveVars,
                   disk, location>>

\* GroupAnalysis, verification results: shown while results is set and the
\* mode is 'verification'.
VerificationShown ==
    page = "GroupAnalysis" /\ pageResult # Null /\ mode = "verification"

\* GroupAnalysis, analysis results: shown while results is set and the mode
\* is 'analysis'.
AnalysisShown ==
    page = "GroupAnalysis" /\ pageResult # Null /\ mode = "analysis"

\* verificationResult.verified ? 'Verification Successful' : 'Verification Failed'
VerificationStatus ==
    IF Flag(pageResult, "verified")
    THEN "Verification Successful"
    ELSE "Verification Failed"

\* The names under "Missing Users:".
MissingListed ==
    {List(pageResult, "missing_users")[k] :
        k \in 1..Len(List(pageResult, "missing_users"))}

\* CameraAnalysis, group results: shown while results is set and the type
\* is 'group'.
GroupResultsShown == CAMounted /\ results # Null /\ type = "group"

\* Status: {results.authenticated ? 'Authenticated' : 'Not Authenticated'}
GroupStatus ==
    IF Flag(results, "authenticated") THEN "Authenticated" ELSE "Not Authenticated"

\* Missing Users: {results.missingUsers.join(', ')}
GroupMissingListed ==
    {List(results, "missingUsers")[k] :
        k \in 1..Len(List(results, "missingUsers"))}

\* ------------------------------------------------------------ specification
InitLive ==
    /\ mounted = "none"
    /\ gum = <<>>
    /\ srcObject = 0
    /\ videoWidth = 0
    /\ videoHeight = 0
    /\ canvas = NewCanvas
    /\ isProcessing = FALSE
    /\ interval = NoTimer
    /\ type = "none"
    /\ requiredUsers = <<>>
    /\ results = Null
    /\ inflight = <<>>
    /\ isActive = FALSE
    /\ continuousProcessing = FALSE
    /\ error = ""
    /\ stream = 0
    /\ apiCalls = {}

InitPage ==
    /\ page = "none"
    /\ mode = "none"
    /\ name = ""
    /\ selectedImages = <<>>
    /\ maxImagesReached = FALSE
    /\ imagePreview = ""
    /\ location = <<>>
    /\ readers = <<>>
    /\ pageError = ""
    /\ pageSuccess = ""
    /\ pageResult = Null
    /\ pageProcessing = FALSE
    /\ requests = <<>>

\* The form pages with files of one content.
InitForms ==
    /\ InitPage
    /\ disk = <<ImageA>>

InitOverlay ==
    /\ detectedFaces = <<>>
    /\ rects = <<>>

Init ==
    /\ InitLive
    /\ clock = NoClock
    /\ InitForms
    /\ InitOverlay

\* The CameraAnalysis page.
Next ==
    \/ \E t \in Types : MountCameraAnalysis(t)
    \/ UnmountCameraAnalysis
    \/ \E t \in Types : ChangeType(t)
    \/ \E text \in InputTexts : ChangeRequiredUsers(text)
    \/ CATick
    \/ \E i \in 1..MaxInflight, ok \in BOOLEAN : FetchResolve(i, ok)
    \/ \E i \in 1..MaxInflight : FetchReject(i)
    \/ \E i \in 1..MaxInflight : JsonResolve(i)
    \/ \E i \in 1..MaxInflight : JsonReject(i)
    \/ \E k \in 1..MaxAcquire : GumResolve(k)
    \/ \E k \in 1..MaxAcquire : GumReject(k)
    \/ VideoLoaded

Spec == Init /\ [][Next]_vars

\* The Camera component under the props its parent may give it.
NextCamera ==
    \/ \E a \in BOOLEAN, c \in BOOLEAN : MountCamera(a, c)
    \/ \E a \in BOOLEAN : SetIsActive(a)
    \/ \E c \in BOOLEAN : SetContinuousProcessing(c)
    \/ UnmountCamera
    \/ CamTick
    \/ CaptureClick
    \/ \E k \in 1..MaxAcquire : GumResolve(k)
    \/ \E k \in 1..MaxAcquire : GumReject(k)
    \/ VideoLoaded

SpecCamera == Init /\ [][NextCamera]_vars

\* Both live components.  CameraAnalysis and Camera are separate components
\* that share no state, so a session is followed on one of the two pages:
\* the steps of a page are taken while the camera calls and the requests of
\* the other page are absent.
NextLive ==
    \/ /\ \A k \in 1..Len(gum) : gum[k].comp = "CameraAnalysis"
       /\ Next
    \/ /\ inflight = <<>>
       /\ \A k \in 1..Len(gum) : gum[k].comp = "Camera"
       /\ NextCamera

SpecLive == Init /\ [][NextLive]_vars

\* Both live components with the mode buttons of Analysis, a session being
\* followed on one of the two pages as in NextLive.
NextSwitch ==
    \/ NextLive
    \/ /\ inflight = <<>>
       /\ \A k \in 1..Len(gum) : gum[k].comp = "Camera"
       /\ \E m \in {"identify", "register"} : ChangeMode(m)

SpecSwitch == Init /\ [][NextSwitch]_vars

\* The form pages.
NextForms ==
    \/ \E p \in FormPages : OpenPage(p)
    \/ \E m \in {"identify", "register", "analysis", "verification"} : SetMode(m)
    \/ \E n \in Names : SetName(n)
    \/ \E u \in RegisteredUsers : ToggleRequiredUser(u)
    \/ \E n \in FileCounts : handleImageUpload(n)
    \/ handleFileChange
    \/ resetAnalysis
    \/ \E i \in 1..MaxFiles : ReaderLoadEnd(i)
    \/ \E i \in 1..MaxFiles : RemoveImageClick(i)
    \/ SubmitClick
    \/ \E i \in 1..MaxRequests, data \in AllBodies : PostResolve(i, data)
    \/ \E i \in 1..MaxRequests, err \in Rejections : PostReject(i, err)

SpecForms == Init /\ [][NextForms]_vars

\* The Analysis page in identify mode with upload input, the user picking
\* from files of two contents.
InitPreview ==
    /\ InitLive
    /\ clock = NoClock
    /\ InitPage
    /\ disk = <<ImageA, ImageB>>
    /\ InitOverlay

NextPreview ==
    \/ OpenPage("Analysis")
    \/ \E n \in FileCounts : handleImageUpload(n)
    \/ \E i \in 1..MaxFiles : ReaderLoadEnd(i)
    \/ \E i \in 1..MaxFiles : RemoveImageClick(i)
    \/ SubmitClick
    \/ \E i \in 1..MaxRequests, data \in ResponseBodies("/api/identify-face") :
          PostResolve(i, data)
    \/ \E i \in 1..MaxRequests, err \in Rejections : PostReject(i, err)

SpecPreview == InitPreview /\ [][NextPreview]_vars

\* The two registration forms, Analysis and FaceRegistration: the user
\* picks the mode, types a name, adds images and submits; the requests are
\* answered or fail.
NextRegistration ==
    \/ \E p \in {"Analysis", "FaceRegistration"} : OpenPage(p)
    \/ \E m \in {"identify", "register"} : SetMode(m)
    \/ \E n \in Names : SetName(n)
    \/ \E n \in FileCounts : handleImageUpload(n)
    \/ \E i \in 1..MaxFiles : ReaderLoadEnd(i)
    \/ SubmitClick
    \/ \E i \in 1..MaxRequests, data \in AllBodies : PostResolve(i, data)
    \/ \E i \in 1..MaxRequests, err \in Rejections : PostReject(i, err)

SpecRegistration == Init /\ [][NextRegistration]_vars

\* An authenticated user on the dashboard: the feature cards and the pages
\* they lead to.
NextDashboard ==
    \/ OpenDashboard
    \/ \E k \in 1..Len(features) : DashboardClick(k)
    \/ NavigateReplace
    \/ \E m \in {"analysis", "verification"} : SetMode(m)
    \/ \E n \in Names : SetName(n)
    \/ \E u \in RegisteredUsers : ToggleRequiredUser(u)
    \/ \E n \in FileCounts : handleImageUpload(n)
    \/ handleFileChange
    \/ \E i \in 1..MaxFiles : ReaderLoadEnd(i)
    \/ \E i \in 1..MaxFiles : RemoveImageClick(i)
    \/ SubmitClick
    \/ \E i \in 1..MaxRequests, data \in AllBodies : PostResolve(i, data)
    \/ \E i \in 1..MaxRequests, err \in Rejections : PostReject(i, err)

SpecDashboard == Init /\ [][NextDashboard]_vars

\* The CameraAnalysis page under a clock: every request takes the latency
\* of the run, the timer fires one interval after it was armed or fired.
InitTimed ==
    /\ InitLive
    /\ \E l \in Latencies : clock = StartClock(l)
    /\ InitForms
    /\ InitOverlay

NextTimed ==
    \/ \E t \in Types : MountCameraAnalysis(t)
    \/ CATick
    \/ \E i \in 1..MaxInflight, ok \in BOOLEAN : FetchResolve(i, ok)
    \/ \E i \in 1..MaxInflight : FetchReject(i)
    \/ \E i \in 1..MaxInflight : JsonResolve(i)
    \/ \E i \in 1..MaxInflight : JsonReject(i)
    \/ \E k \in 1..MaxAcquire : GumResolve(k)
    \/ \E k \in 1..MaxAcquire : GumReject(k)
    \/ VideoLoaded
    \/ Tock

SpecTimed == InitTimed /\ [][NextTimed]_vars

\* The overlay of an active Camera whose stream is live, for every size of
\* video and canvas and every detected face.
InitDraw ==
    /\ mounted = "Camera"
    /\ gum = <<[comp |-> "Camera", owner |-> TRUE, state |-> "live"]>>
    /\ srcObject = 1
    /\ stream = 1
    /\ videoWidth \in 1..MaxDim
    /\ videoHeight \in 1..MaxDim
    /\ canvas \in {[width |-> w, height |-> h, boxes |-> FALSE] :
                      w \in 1..MaxDim, h \in 1..MaxDim}
    /\ isProcessing = FALSE
    /\ interval = NoTimer
    /\ type = "none"
    /\ requiredUsers = <<>>
    /\ results = Null
    /\ inflight = <<>>
    /\ isActive = TRUE
    /\ continuousProcessing = FALSE
    /\ error = ""
    /\ apiCalls = {}
    /\ clock = NoClock
    /\ InitForms
    /\ detectedFaces \in {<<[box |-> b]>> : b \in Boxes}
    /\ rects = <<>>

NextDraw ==
    \/ drawDetections
    \/ CaptureClick

SpecDraw == InitDraw /\ [][NextDraw]_vars

\* The browser keeps firing an armed timer and finishes parsing a body it has
\* received; nothing obliges the backend to answer a request.
FairSpec ==
    /\ Spec
    /\ WF_vars(CATick)
    /\ WF_vars(\E i \in 1..MaxInflight : JsonResolve(i) \/ JsonReject(i))

TypeOK ==
    /\ mounted \in {"none", "CameraAnalysis", "Camera"}
    /\ Len(gum) <= MaxMounts + MaxAcquire
    /\ \A k \in 1..Len(gum) :
          gum[k].state \in {"pending", "live", "stopped", "rejected"}
    /\ srcObject \in 0..Len(gum)
    /\ stream \in 0..Len(gum)
    /\ Len(inflight) <= MaxInflight
    /\ isProcessing \in BOOLEAN

\* ------------------------------------------------------------------- claims
\* processFrame invocations of the mounted instance whose fetch has not
\* settled.  (An unmounted instance starts no invocation any more.)
Unsettled ==
    {i \in 1..Len(inflight) : inflight[i].alive /\ inflight[i].pc = "fetch"}

\* C1: whatever the interleaving of ticks, settlements and changes of type
\* or requiredUsers, one CameraAnalysis instance never has more than one
\* fetch that has not settled.
C1_AtMostOneInFlight == Cardinality(Unsettled) <= 1

\* A tick was skipped while a fetch of the mounted instance was pending and
\* the type had changed since it was issued.
C1_Witness ==
    /\ CAMounted
    /\ isProcessing
    /\ apiCalls = {"drawImage", "toDataURL"}
    /\ \E i \in Unsettled : inflight[i].type # type

\* The scheduler that issued invocation r has been stopped or rebuilt: its
\* component is unmounted, or type or requiredUsers differ from the ones
\* the invocation closed over.
Stale(r) == ~Alive(r) \/ r.type # type \/ r.requiredUsers # requiredUsers

\* C2: the response of a request whose scheduler was stopped or rebuilt
\* while it was in flight is neither written to results nor drawn.
C2_NoStaleWrite ==
    [][\A i \in 1..Len(inflight) :
          (Stale(inflight[i]) /\ JsonResolve(i))
              => (results' = results /\ canvas' = canvas)]_vars

\* C3: a stream obtained from getUserMedia is live only while the component
\* instance (for Camera: the effect run) that asked for it is still there;
\* after deactivation or unmount it is stopped, also when getUserMedia
\* resolves after the teardown.
C3_StreamsStoppedOnTeardown ==
    \A k \in 1..Len(gum) :
        Live(k) => (OwnerMounted(k) /\ (gum[k].comp = "Camera" => stream = k))

\* C4: a CameraAnalysis tick that fires while isProcessing is true captures
\* no frame and issues no fetch.
C4_BusyTickDoesNothing ==
    [][(isProcessing /\ CATick)
          => (apiCalls' = {} /\ canvas' = canvas /\ inflight' = inflight)]_vars

\* C5: a tick that fires while the video has a zero dimension produces no
\* image payload, issues no fetch and calls no onCapture.
C5_ZeroSizeTickSkipped ==
    [][((videoWidth = 0 \/ videoHeight = 0) /\ (CATick \/ CamTick))
          => ({"toDataURL", "fetch", "onCapture"} \cap apiCalls' = {})]_vars

\* C6: a cycle that sets isProcessing to true eventually sets it back to
\* false, even if the backend never answers.
C6_BusyEventuallyCleared == isProcessing ~> ~isProcessing

\* Live streams of the mounted Camera instance.
LiveStreams ==
    {k \in 1..Len(gum) : Live(k) /\ gum[k].comp = "Camera" /\ gum[k].owner}

\* C7: under any sequence of isActive toggles and getUserMedia outcomes one
\* Camera instance never has more than one live MediaStream.
C7_OneLiveStreamPerCamera == Cardinality(LiveStreams) <= 1

\* The teardown of the mounted component: stopCamera, or the Camera effect's
\* cleanup.
Teardown == UnmountCameraAnalysis \/ UnmountCamera \/ (\E a \in BOOLEAN : SetIsActive(a))

\* The stream the mounted component has acquired, 0 if none.
Acquired ==
    IF CAMounted THEN srcObject
    ELSE IF CamMounted /\ stream # 0 /\ gum[stream].state \in {"live", "stopped"}
    THEN stream ELSE 0

\* A start of the camera: a mount of CameraAnalysis, or a Camera effect run
\* with isActive true.
Start ==
    \/ \E t \in Types : MountCameraAnalysis(t)
    \/ \E c \in BOOLEAN : MountCamera(TRUE, c)
    \/ SetIsActive(TRUE)

\* C8: after a stop that follows a successful acquisition every track of the
\* acquired stream is stopped, and a later start asks for a fresh stream.
C8_StopReleasesStartReacquires ==
    [][/\ (Teardown /\ Acquired # 0) => gum'[Acquired].state = "stopped"
       /\ Start => (Len(gum') = Len(gum) + 1 /\ gum'[Len(gum')].state = "pending")]_vars

\* The getUserMedia call of the mounted component (for Camera: of the current
\* effect run) was rejected.
CameraFailed ==
    \E k \in 1..Len(gum) :
        /\ OwnerMounted(k)
        /\ CamMounted => stream = k
        /\ gum[k].state = "rejected"

\* CameraAnalysis renders no error element; Camera renders {error && ...}.
ErrorDisplayed == IF CamMounted THEN Truthy(error) ELSE FALSE

\* C9: once getUserMedia is rejected a camera error message is displayed,
\* and stays displayed, and no tick captures or submits a frame.
C9_CameraErrorStopsSession ==
    [][/\ CameraFailed' => ErrorDisplayed'
       /\ (CameraFailed /\ (CATick \/ CamTick)) => apiCalls' = {}]_vars

\* A processFrame request fails: network error, non-OK status or
\* unparsable body.
RequestFails(i) == FetchReject(i) \/ FetchResolve(i, FALSE) \/ JsonReject(i)

\* C10: when a processFrame request of the mounted instance fails, results
\* is reset to none and an error is shown.
C10_FailureClearsResultAndShowsError ==
    [][\A i \in 1..Len(inflight) :
          (Alive(inflight[i]) /\ RequestFails(i))
              => (results' = Null /\ ErrorDisplayed')]_vars

\* C11: no request failure stops the CameraAnalysis scheduler.  When a
\* processFrame request of the mounted instance fails, the tick timer is
\* armed again with a callback that sees isProcessing false; and a tick that
\* fires with isProcessing false, for a type the switch of processFrame
\* knows, starts a new request.
C11_FailureKeepsTicking ==
    [][/\ \A i \in 1..Len(inflight) :
             (Alive(inflight[i]) /\ RequestFails(i))
                 => (interval'.armed /\ ~interval'.isProcessing /\ ~isProcessing')
       /\ (CATick /\ ~isProcessing /\ ~InvalidType(interval.type))
             => ("fetch" \in apiCalls' /\ Len(inflight') = Len(inflight) + 1)]_vars

\* A request of the mounted instance has just failed, and the timer is armed
\* for a tick that will start the next one.
C11_Witness ==
    /\ CAMounted
    /\ apiCalls = {"console.error"}
    /\ interval.armed
    /\ ~interval.isProcessing
    /\ ~InvalidType(interval.type)

\* C12: a response body with success = false is never stored as the current
\* result, neither in results of CameraAnalysis nor in the result of a form
\* page.
C12_FailureBodyNeverStored ==
    /\ results = Null \/ results.success
    /\ pageResult = Null \/ pageResult.success

\* C14: with a tick interval of 1000 ms and a request latency of 1500 ms a
\* CameraAnalysis whose camera delivers frames has started exactly two
\* requests in the first 3000 ms after its mount, at 0 ms and at 1500 ms.
C14_TwoRequestsIn3000 ==
    (/\ clock.running
     /\ CAMounted
     /\ ~InvalidType(type)
     /\ videoWidth > 0
     /\ clock.latency = 1500
     /\ clock.now >= 3000)
        => {t \in clock.started : t < 3000} = {0, 1500}

\* Equality of fractions.
RatEq(a, b) == a.num * b.den = b.num * a.den

\* The place of a box of the native frame (videoWidth, videoHeight) on a
\* canvas of size (width, height), each axis scaled by its own ratio.
ScaledPerAxis(box) ==
    [x |-> [num |-> box[1] * canvas.width, den |-> videoWidth],
     y |-> [num |-> box[2] * canvas.height, den |-> videoHeight],
     w |-> [num |-> box[3] * canvas.width, den |-> videoWidth],
     h |-> [num |-> box[4] * canvas.height, den |-> videoHeight]]

\* C15: drawDetections strokes every box (x, y, w, h) at
\* (x*W'/W, y*H'/H, w*W'/W, h*H'/H), for every video size (W, H) and canvas
\* size (W', H'); hence unchanged when the sizes are equal.
C15_BoxScaledPerAxis ==
    [][drawDetections =>
          \A i \in 1..Len(detectedFaces) :
              \A f \in {"x", "y", "w", "h"} :
                  RatEq(rects'[i][f], ScaledPerAxis(detectedFaces[i].box)[f])]_vars

\* C20: in Analysis with camera input, continuous processing on and the
\* camera active, a tick of the Camera that captures a frame of the loaded
\* video sends an inference request carrying that frame.
C20_CapturedTickIsSubmitted ==
    [][(/\ CamTick
        /\ continuousProcessing /\ isActive
        /\ videoWidth > 0 /\ videoHeight > 0
        /\ "onCapture" \in apiCalls')
          => /\ Len(requests') = Len(requests) + 1
             /\ requests'[Len(requests')].body.image = imagePreview']_vars

\* The scheduler of the mounted component is meant to run: CameraAnalysis
\* ticks while mounted, Camera while continuousProcessing and isActive.
SchedulerRunning ==
    CAMounted \/ (CamMounted /\ continuousProcessing /\ isActive)

\* The scheduler is stopped.
Stop ==
    \/ UnmountCameraAnalysis
    \/ UnmountCamera
    \/ SetContinuousProcessing(FALSE)
    \/ SetIsActive(FALSE)

\* The request of invocation i settles.
Settles(i) == FetchResolve(i, TRUE) \/ JsonResolve(i) \/ RequestFails(i)

\* C19: a stop clears the interval timer; the timer is never armed while the
\* scheduler is stopped, so no tick invokes processFrame or captureAndProcess
\* then; and the settling of a request whose instance was unmounted while it
\* was in flight leaves the timer as it is.
C19_StopClearsTimer ==
    [][/\ Stop => ~interval'.armed
       /\ interval'.armed => SchedulerRunning'
       /\ (CATick \/ CamTick) => SchedulerRunning
       /\ \A i \in 1..Len(inflight) :
             (~Alive(inflight[i]) /\ Settles(i)) => interval' = interval]_vars

\* A request that was in flight when CameraAnalysis was unmounted has failed
\* since, and no timer is armed.
C19_Witness ==
    /\ mounted = "none"
    /\ apiCalls = {"console.error"}
    /\ ~interval.armed

\* C13: every register-face request of Analysis.handleRegisterFace and of
\* FaceRegistration.handleSubmit carries between 1 and 5 images.
C13_RegisterCarries1To5Images ==
    \A i \in 1..Len(requests) :
        requests[i].endpoint = "/api/register-face"
            => Len(requests[i].body.images) \in 1..MaxImages

\* C16: a group verification request goes to /api/verify-group with a body
\* of image and requiredUsers, from CameraAnalysis type 'group' and from
\* GroupAnalysis in verification mode; type 'face' goes to
\* /api/identify-face and type 'crowd' to /api/crowd-count.
C16_GroupVerificationEndpoint ==
    /\ \A i \in 1..Len(inflight) :
          LET r == inflight[i] IN
          /\ r.type = "group" =>
                /\ r.request.endpoint = "/api/verify-group"
                /\ DOMAIN r.request.payload = {"image", "requiredUsers"}
          /\ r.type = "face" => r.request.endpoint = "/api/identify-face"
          /\ r.type = "crowd" => r.request.endpoint = "/api/crowd-count"
    /\ \A i \in 1..Len(requests) :
          LET r == requests[i] IN
          (r.handler = "GroupAnalysis.handleSubmit" /\ r.mode = "verification") =>
                /\ r.endpoint = "/api/verify-group"
                /\ DOMAIN r.body = {"image", "requiredUsers"}

\* The names of a body's missingUsers.
MissingUsers(d) ==
    {List(d, "missingUsers")[k] : k \in 1..Len(List(d, "missingUsers"))}

\* C17: while a verify-group response with verified = false is the result
\* shown, the view reports the failure and lists every name of the
\* response's missingUsers: GroupAnalysis verification view and
\* CameraAnalysis group view.
C17_FailureShownAndMissingListed ==
    /\ (VerificationShown /\ "verified" \in DOMAIN pageResult
            /\ ~pageResult.verified) =>
          /\ VerificationStatus = "Verification Failed"
          /\ MissingUsers(pageResult) \subseteq MissingListed
    /\ (GroupResultsShown /\ "verified" \in DOMAIN results
            /\ ~results.verified) =>
          /\ GroupStatus = "Not Authenticated"
          /\ MissingUsers(results) \subseteq GroupMissingListed

\* The messages GroupAnalysis shows for a failure the server answered:
\* the server's message or one of the defaults.
ServerFailureMessages(m) ==
    IF m # "" THEN {m}
    ELSE {"An error occurred during analysis",
          "An error occurred during verification",
          "An error occurred during group analysis"}

\* C18: in GroupAnalysis.handleSubmit a failure the server answered is
\* reported with the server's message or a default analysis message, a
\* failure without a response with the 'No response received' message;
\* in both cases results stays null and isProcessing returns to false.
C18_FailureKindsKeptApart ==
    [][\A i \in 1..Len(requests) :
          requests[i].handler = "GroupAnalysis.handleSubmit" =>
             /\ \A err \in Rejections :
                   PostReject(i, err) =>
                      /\ err.responded =>
                            pageError' \in ServerFailureMessages(err.response.message)
                      /\ (~err.responded /\ err.request) =>
                            pageError' = "No response received from the server. Please check your network connection."
                      /\ pageResult' = Null
                      /\ ~pageProcessing'
             /\ \A data \in ResponseBodies(requests[i].endpoint) :
                   (PostResolve(i, data) /\ ~Flag(data, "success")) =>
                      /\ pageError' \in ServerFailureMessages(Text(data, "message"))
                      /\ pageResult' = Null
                      /\ ~pageProcessing']_vars

\* C21: in CameraAnalysis the face boxes drawn for a response stay on the
\* canvas over later ticks, whether the tick is skipped as busy, sends a
\* request or fails.  Stated for a canvas that has the size of a loaded
\* video, on which the boxes are visible.
C21_BoxesStayDisplayed ==
    [][(canvas.boxes /\ canvas.width > 0 /\ canvas.height > 0 /\ CATick)
          => canvas'.boxes]_vars

\* C22: in GroupAnalysis an analyze-group response is never rendered as a
\* verification result and a verify-group response is never rendered as an
\* analysis result.
C22_ResultBelongsToMode ==
    /\ VerificationShown => pageResult \notin ResponseBodies("/api/analyze-group")
    /\ AnalysisShown => pageResult \notin ResponseBodies("/api/verify-group")

\* C23: in Analysis the detectedFaces handed to the Camera overlay are the
\* results of the response held in result, and are empty whenever result is
\* null.
C23_DetectedFacesFollowResult ==
    page = "Analysis" =>
        detectedFaces = (IF pageResult = Null THEN <<>>
                         ELSE List(pageResult, "results"))

\* getUserMedia calls and the state of their streams, and what the video
\* element shows.
CameraState == <<gum, srcObject, stream>>

\* C24: a mode switch in Analysis while the Camera is active, and a change
\* of type or requiredUsers in CameraAnalysis, stop no track, make no
\* getUserMedia call and leave the video's stream; of the other state of the
\* live components at most the tick timer changes.
C24_SwitchLeavesCamera ==
    [][/\ (\E m \in {"identify", "register"} : ChangeMode(m)) =>
             UNCHANGED <<CameraState, interval, isProcessing, canvas>>
       /\ ((\E t \in Types : ChangeType(t))
             \/ (\E text \in InputTexts : ChangeRequiredUsers(text))) =>
             /\ UNCHANGED <<CameraState, isProcessing, canvas>>
             /\ interval'.armed]_vars

\* The mode was switched to 'register' under a Camera whose only
\* getUserMedia call has a live stream.
C24_Witness ==
    /\ CamMounted
    /\ isActive
    /\ mode = "register"
    /\ Len(gum) = 1
    /\ gum[1].state = "live"
    /\ srcObject = 1

\* C26: on the Analysis page the preview is either absent or one of the
\* images currently selected, so an identify request never carries an image
\* the user has removed.
C26_PreviewIsSelected ==
    page = "Analysis" =>
        \/ imagePreview = ""
        \/ \E k \in 1..Len(selectedImages) : selectedImages[k] = imagePreview

\* C25: in CrowdAnalysis the response to a request that was in flight when
\* resetAnalysis ran does not set result.  With a request in flight, no
\* image is selected only after resetAnalysis.
C25_ResetDropsLateResponse ==
    [][\A i \in 1..Len(requests), data \in ResponseBodies("/api/crowd-count") :
          (/\ requests[i].handler = "CrowdAnalysis.handleSubmit"
           /\ imagePreview = ""
           /\ PostResolve(i, data)) => pageResult' = Null]_vars

\* C28: no register-face request carries a name that is empty or consists
\* only of whitespace.
C28_RegisteredNameNotBlank ==
    \A i \in 1..Len(requests) :
        requests[i].endpoint = "/api/register-face" =>
            Trim(requests[i].body.name) # ""

\* C29: when a register-face request throws or is answered with success
\* false, the step that handles the failure leaves name, selectedImages and
\* imagePreview as they are, sets an error and ends with isProcessing false;
\* a step that handles the outcome of a register-face request changes one of
\* the inputs only when the answer has success true, and then clears them.
C29_FailedRegistrationKeepsInputs ==
    [][\A i \in 1..Len(requests) :
          (/\ requests[i].endpoint = "/api/register-face"
           /\ requests' = Remove(requests, i)) =>
              /\ \/ /\ name' = name
                    /\ selectedImages' = selectedImages
                    /\ imagePreview' = imagePreview
                    /\ pageError' # ""
                    /\ pageProcessing' = FALSE
                 \/ ~ \/ \E err \in Rejections : PostReject(i, err)
                      \/ \E data \in ResponseBodies("/api/register-face") :
                            ~Flag(data, "success") /\ PostResolve(i, data)
              /\ \/ /\ name' = ""
                    /\ selectedImages' = <<>>
                    /\ page = "Analysis" => imagePreview' = ""
                 \/ ~ \E data \in ResponseBodies("/api/register-face") :
                         Flag(data, "success") /\ PostResolve(i, data)]_vars

\* A registration from Analysis has failed with images, a preview and a name
\* in the form.
C29_Witness ==
    /\ page = "Analysis"
    /\ mode = "register"
    /\ requests = <<>>
    /\ pageError \in {"Registration failed",
                      "Failed to register face. Please try again."}
    /\ ~pageProcessing
    /\ Trim(name) # ""
    /\ selectedImages # <<>>
    /\ imagePreview # ""

\* C30: the location never rests on a pathname that only the catch-all
\* route matches, so a click on a Dashboard feature is never answered with
\* the redirect to "/".
C30_FeaturePathsHaveRoutes ==
    Match(location) # "Navigate"

\* C27: on a form page at most one request of the submit handler is
\* outstanding, and isProcessing is true exactly while one is outstanding.
C27_OneRequestWhileProcessing ==
    page \in FormPages =>
        /\ Len(requests) <= 1
        /\ pageProcessing <=> requests # <<>>

====
